---------------------------- MODULE Spec2Model ----------------------------
(***************************************************************************)
(* Model of src/src/init.py (qs_sounds): the locus identifier create_id,   *)
(* the speech-range labelling loop of the main script and the per-word     *)
(* sound tally sounds_per_word.                                            *)
(*                                                                         *)
(* A Python str is modelled as a sequence of characters.  A character is   *)
(* written as a TLA+ string naming it ("alpha" is U+03B1, "7" is the digit *)
(* seven); CodePoint gives its Unicode code point, which is what Python's  *)
(* string comparison and the regular-expression ranges look at.            *)
(***************************************************************************)
EXTENDS Integers, Sequences, FiniteSets, TLC

VARIABLES
    loci,       \* create_id: the two loci (book no, line no, suffix) handed in
    ids,        \* create_id: the keys returned for them, <<>> before the calls
    lines,      \* main: the line table, one record (id, label, text) per line
    speeches,   \* main: the speech records of DICES, each with l_fi and l_la
    cur,        \* main: index of the speech the labelling loop is at
    pc,         \* main: position of the script
    sounds,     \* main: the profiles of words["sound"], <<>> before line 238
    written,    \* main: whether SOUNDS_FILE has been written
    word,       \* sounds_per_word: the argument
    count,      \* sounds_per_word: the returned dictionary
    wpc         \* sounds_per_word: "call" before the call, "returned" after

idVars == <<loci, ids>>
mainVars == <<lines, speeches, cur, pc, sounds, written>>
wordVars == <<word, count, wpc>>
vars == <<loci, ids, lines, speeches, cur, pc, sounds, written, word, count, wpc>>

-----------------------------------------------------------------------------
(* Characters and Python string primitives                                 *)

Digits == <<"0", "1", "2", "3", "4", "5", "6", "7", "8", "9">>

\* Unicode code point of each character the model uses.
CodePoint(c) ==
    CASE c = " " -> 32
      [] c = "," -> 44
      [] c = "." -> 46
      [] c = "0" -> 48
      [] c = "1" -> 49
      [] c = "2" -> 50
      [] c = "3" -> 51
      [] c = "4" -> 52
      [] c = "5" -> 53
      [] c = "6" -> 54
      [] c = "7" -> 55
      [] c = "8" -> 56
      [] c = "9" -> 57
      [] c = "O" -> 79
      [] c = "U" -> 85
      [] c = "X" -> 88
      [] c = "Y" -> 89
      [] c = "_" -> 95
      [] c = "a" -> 97
      [] c = "b" -> 98
      [] c = "e" -> 101
      [] c = "h" -> 104
      [] c = "u" -> 117
      [] c = "z" -> 122
      [] c = "acute" -> 769          \* U+0301 combining acute accent
      [] c = "dasia" -> 788          \* U+0314 combining reversed comma above
      [] c = "ALPHA" -> 913          \* U+0391
      [] c = "IOTA" -> 921           \* U+0399
      [] c = "alpha_tonos" -> 940    \* U+03AC
      [] c = "alpha" -> 945          \* U+03B1
      [] c = "epsilon" -> 949
      [] c = "theta" -> 952
      [] c = "iota" -> 953
      [] c = "kappa" -> 954
      [] c = "omicron" -> 959
      [] c = "pi" -> 960
      [] c = "fsigma" -> 962         \* U+03C2 final sigma
      [] c = "sigma" -> 963
      [] c = "tau" -> 964
      [] c = "upsilon" -> 965
      [] c = "phi" -> 966
      [] c = "chi" -> 967
      [] c = "omega" -> 969          \* U+03C9
      [] c = "alpha_dasia" -> 7937   \* U+1F01
      [] c = "gr_dasia" -> 8190      \* U+1FFE

Min(a, b) == IF a < b THEN a ELSE b

\* s <= t for Python str: lexicographic by code point, a proper prefix first.
StrLE(s, t) ==
    \E k \in 0..Min(Len(s), Len(t)) :
        /\ \A i \in 1..k : s[i] = t[i]
        /\ \/ k = Len(s)
           \/ /\ k < Len(s)
              /\ k < Len(t)
              /\ CodePoint(s[k + 1]) < CodePoint(t[k + 1])

StrLT(s, t) == StrLE(s, t) /\ s # t

\* \d of the re module, on the characters of the model.
IsDigit(c) == CodePoint(c) \in 48..57

\* [a-z] of the re module.
IsLowerAZ(c) == CodePoint(c) \in 97..122

\* int(s): defined on a non-empty run of digits, ValueError otherwise.
IsInt(s) == Len(s) >= 1 /\ \A i \in 1..Len(s) : IsDigit(s[i])

RECURSIVE int(_)
int(s) ==
    IF s = <<>> THEN 0
    ELSE 10 * int(SubSeq(s, 1, Len(s) - 1)) + (CodePoint(s[Len(s)]) - 48)

\* str(n) of a non-negative integer: its decimal digits, no padding.
RECURSIVE Dec(_)
Dec(n) ==
    IF n < 10 THEN <<Digits[n + 1]>>
    ELSE Dec(n \div 10) \o <<Digits[(n % 10) + 1]>>

RECURSIVE ZeroPad(_, _)
ZeroPad(s, w) == IF Len(s) >= w THEN s ELSE ZeroPad(<<"0">> \o s, w)

-----------------------------------------------------------------------------
(* create_id, lines 76-95                                                  *)

BookWidth == 2
LineWidth == 3

\* Faulty variant of FormatD: the number is written without zero padding.
FormatD_unpadded(n, w) == Dec(n)

\* f"{n:0wd}" for n >= 0.
FormatD(n, w) == ZeroPad(Dec(n), w)

\* Length of the leading digit run of s, the text (\d+) consumes.
RECURSIVE DigitRun(_)
DigitRun(s) ==
    IF s # <<>> /\ IsDigit(Head(s)) THEN 1 + DigitRun(Tail(s)) ELSE 0

\* re.match(r"(\d+)([a-z])", line): a match at the start of line, None
\* when the digit run is empty or is not followed by a lowercase letter.
LineMatch(line) ==
    LET k == DigitRun(line)
    IN  IF k >= 1 /\ Len(line) > k /\ IsLowerAZ(line[k + 1])
        THEN [matched |-> TRUE, numeric |-> SubSeq(line, 1, k),
              letter |-> <<line[k + 1]>>]
        ELSE [matched |-> FALSE, numeric |-> line, letter |-> <<>>]

\* Faulty variant of create_id: the letter suffix is dropped from the key.
create_id_nosuffix(book, line) ==
    LET m == LineMatch(line)
    IN  IF IsInt(book) /\ IsInt(m.numeric)
        THEN [raised |-> FALSE,
              id |-> FormatD(int(book), BookWidth) \o <<"_">>
                     \o FormatD(int(m.numeric), LineWidth)]
        ELSE [raised |-> TRUE, id |-> <<>>]

\* create_id(book, line): the key, or raised when int() raises ValueError.
create_id(book, line) ==
    LET m == LineMatch(line)
    IN  IF IsInt(book) /\ IsInt(m.numeric)
        THEN [raised |-> FALSE,
              id |-> FormatD(int(book), BookWidth) \o <<"_">>
                     \o FormatD(int(m.numeric), LineWidth) \o m.letter]
        ELSE [raised |-> TRUE, id |-> <<>>]


-----------------------------------------------------------------------------
(* Inputs of create_id: book and line numbers around every change of width *)
(* of the two fields, and the suffixes a line number can carry.            *)

BookNos == {0, 1, 2, 9, 10, 12, 99, 100}
LineNos == {0, 1, 7, 8, 9, 10, 23, 99, 100, 999, 1000}
Suffixes == {<<>>, <<"a">>, <<"b">>, <<"z">>}

Locus == [book : BookNos, line : LineNos, suffix : Suffixes]

\* The n attributes of a book and of a line as retrieve_text reads them.
BookAttr(l) == Dec(l.book)
LineAttr(l) == Dec(l.line) \o l.suffix

\* The values every specification gives the variables it does not use.
IdleId == loci = <<>> /\ ids = <<>>
IdleMain ==
    /\ lines = <<>>
    /\ speeches = <<>>
    /\ cur = 0
    /\ pc = "idle"
    /\ sounds = <<>>
    /\ written = FALSE
IdleWord == word = <<>> /\ count = <<>> /\ wpc = "idle"

IdInit ==
    /\ loci \in Locus \X Locus
    /\ ids = <<>>
    /\ IdleMain
    /\ IdleWord

\* line_id = create_id(bn, ln), line 131, for two lines of the text.
CreateIds ==
    /\ ids = <<>>
    /\ ids' = [i \in 1..2 |-> create_id(BookAttr(loci[i]), LineAttr(loci[i]))]
    /\ UNCHANGED <<loci, mainVars, wordVars>>

IdNext == CreateIds

IdSpec == IdInit /\ [][IdNext]_vars

-----------------------------------------------------------------------------
(* Claims about create_id                                                  *)

\* Document order of two loci: by book, then line number, then suffix, the
\* bare numeral before any suffixed form.
SuffixRank(sfx) == IF sfx = <<>> THEN 0 ELSE CodePoint(sfx[1])

LocusBefore(a, b) ==
    \/ a.book < b.book
    \/ a.book = b.book /\ a.line < b.line
    \/ a.book = b.book /\ a.line = b.line
         /\ SuffixRank(a.suffix) < SuffixRank(b.suffix)

InFormatRange(l) == l.book \in 0..99 /\ l.line \in 0..999

\* C1: for loci with book in 0..99 and line number in 0..999, string
\* comparison of the keys create_id returns agrees with the (book, line
\* number, suffix) order: key(a) < key(b) exactly when a precedes b.
C1_KeyOrderIsLocusOrder ==
    (ids # <<>> /\ InFormatRange(loci[1]) /\ InFormatRange(loci[2])) =>
        /\ ~ids[1].raised
        /\ ~ids[2].raised
        /\ StrLT(ids[1].id, ids[2].id) <=> LocusBefore(loci[1], loci[2])

\* C1 witness: keys were computed for a bare line and a suffixed form of the
\* same line, and for a suffixed line and the next line number.
C1_Witness ==
    /\ ids # <<>>
    /\ loci[1] = [book |-> 1, line |-> 7, suffix |-> <<"z">>]
    /\ loci[2] = [book |-> 1, line |-> 8, suffix |-> <<>>]
    /\ StrLT(ids[1].id, ids[2].id)

NumDigits(n) == IF n < 10 THEN 1 ELSE IF n < 100 THEN 2 ELSE IF n < 1000 THEN 3 ELSE 4

Max(a, b) == IF a > b THEN a ELSE b

\* key reads as: the book in at least 2 digits, "_", the line number in at
\* least 3 digits, then the suffix.
IsKeyOf(key, l) ==
    LET p == Max(2, NumDigits(l.book))
        q == Max(3, NumDigits(l.line))
    IN  /\ Len(key) = p + 1 + q + Len(l.suffix)
        /\ IsInt(SubSeq(key, 1, p))
        /\ int(SubSeq(key, 1, p)) = l.book
        /\ key[p + 1] = "_"
        /\ IsInt(SubSeq(key, p + 2, p + 1 + q))
        /\ int(SubSeq(key, p + 2, p + 1 + q)) = l.line
        /\ SubSeq(key, p + 2 + q, Len(key)) = l.suffix

\* C2: for a book that is an integer and a line that is an integer or an
\* integer followed by one lowercase letter, create_id returns the book
\* zero-padded to 2 digits, "_", the line number zero-padded to 3 digits and
\* the suffix letter if present; (1, "7") gives "01_007" and (12, "23b")
\* gives "12_023b".
C2_KeyFormat ==
    ids # <<>> =>
        \A i \in 1..2 :
            /\ ~ids[i].raised
            /\ IsKeyOf(ids[i].id, loci[i])
            /\ loci[i] = [book |-> 1, line |-> 7, suffix |-> <<>>]
                 => ids[i].id = <<"0", "1", "_", "0", "0", "7">>
            /\ loci[i] = [book |-> 12, line |-> 23, suffix |-> <<"b">>]
                 => ids[i].id = <<"1", "2", "_", "0", "2", "3", "b">>

\* C2 witness: create_id has returned the keys of (1, "7") and (12, "23b").
C2_Witness ==
    /\ ids # <<>>
    /\ loci[1] = [book |-> 1, line |-> 7, suffix |-> <<>>]
    /\ loci[2] = [book |-> 12, line |-> 23, suffix |-> <<"b">>]
    /\ ids[2].id = <<"1", "2", "_", "0", "2", "3", "b">>

-----------------------------------------------------------------------------
(* The replacement tables, lines 38-67                                     *)

\* one_time, in insertion order.
one_time ==
    << [k |-> <<"fsigma">>, v |-> "sigma"],
       [k |-> <<"theta">>, v |-> "tau"],
       [k |-> <<"chi">>, v |-> "kappa"],
       [k |-> <<"phi">>, v |-> "pi"] >>

\* reversible, in insertion order.
reversible ==
    << [k |-> <<"omicron", "iota">>, v |-> "O"],
       [k |-> <<"alpha", "iota">>, v |-> "IOTA"],
       [k |-> <<"epsilon", "iota">>, v |-> "e"],
       [k |-> <<"upsilon", "iota">>, v |-> "Y"],
       [k |-> <<"alpha", "upsilon">>, v |-> "ALPHA"],
       [k |-> <<"epsilon", "upsilon">>, v |-> "u"],
       [k |-> <<"omicron", "upsilon">>, v |-> "U"] >>

\* replacements: the entries of reversible, then those of one_time.
replacements == reversible \o one_time

\* Faulty variant of reverse_get: no reverse table, a character is its own key.
reverse_get_identity(c) == <<c>>

\* reverse_replacements.get(c, c): the dictionary is filled entry by entry,
\* so of two entries with one surrogate the later one stays.
reverse_get(c) ==
    LET hits == {i \in 1..Len(reversible) : reversible[i].v = c}
    IN  IF hits = {} THEN <<c>>
        ELSE reversible[CHOOSE i \in hits : \A j \in hits : j <= i].k

-----------------------------------------------------------------------------
(* sounds_per_word, lines 148-192                                          *)

\* unicodedata.normalize("NFKD", c) for one character of the model.
NFKDChar(c) ==
    CASE c = "alpha_dasia" -> <<"alpha", "dasia">>
      [] c = "alpha_tonos" -> <<"alpha", "acute">>
      [] c = "gr_dasia" -> <<" ", "dasia">>
      [] OTHER -> <<c>>

RECURSIVE NFKD(_)
NFKD(s) == IF s = <<>> THEN <<>> ELSE NFKDChar(Head(s)) \o NFKD(Tail(s))

\* str.lower() on the characters of the model.
LowerChar(c) == IF c = "ALPHA" THEN "alpha" ELSE c

Lower(s) == [i \in 1..Len(s) |-> LowerChar(s[i])]

\* str.strip(): leading and trailing whitespace removed.
RECURSIVE LStrip(_)
LStrip(s) == IF s # <<>> /\ Head(s) = " " THEN LStrip(Tail(s)) ELSE s

RECURSIVE RStrip(_)
RStrip(s) ==
    IF s # <<>> /\ s[Len(s)] = " " THEN RStrip(SubSeq(s, 1, Len(s) - 1)) ELSE s

Strip(s) == RStrip(LStrip(s))

\* Faulty variant of InKeptClass: the final sigma is not among the letters kept.
InKeptClass_nofsigma(c) ==
    (CodePoint(c) \in 945..969 /\ c # "fsigma") \/ c = " "

\* The characters [^α-ω ] does not match: U+03B1..U+03C9 and the space.
InKeptClass(c) == CodePoint(c) \in 945..969 \/ c = " "

\* re.sub("[^α-ω ]", "", s)
RemoveOthers(s) == SelectSeq(s, InKeptClass)

\* Faulty variant of ReSub: only the first occurrence is replaced (count=1).
RECURSIVE ReSub_first(_, _, _)
ReSub_first(k, v, s) ==
    IF Len(s) < Len(k) THEN s
    ELSE IF SubSeq(s, 1, Len(k)) = k
         THEN <<v>> \o SubSeq(s, Len(k) + 1, Len(s))
         ELSE <<Head(s)>> \o ReSub_first(k, v, Tail(s))

\* re.sub(k, v, s) for a literal pattern k: every occurrence, leftmost
\* first, non-overlapping, is replaced by the character v.
RECURSIVE ReSub(_, _, _)
ReSub(k, v, s) ==
    IF Len(s) < Len(k) THEN s
    ELSE IF SubSeq(s, 1, Len(k)) = k
         THEN <<v>> \o ReSub(k, v, SubSeq(s, Len(k) + 1, Len(s)))
         ELSE <<Head(s)>> \o ReSub(k, v, Tail(s))

\* The loop of lines 171-172 from entry i on.
RECURSIVE ApplyReplacements(_, _)
ApplyReplacements(s, i) ==
    IF i > Len(replacements) THEN s
    ELSE ApplyReplacements(ReSub(replacements[i].k, replacements[i].v, s), i + 1)

\* Faulty variant of Breathing: the mark is looked for at the start only.
Breathing_leading(decomposed) ==
    IF decomposed # <<>> /\ decomposed[1] = "dasia" THEN <<"h">> ELSE <<>>

\* breathing of line 165.
Breathing(decomposed) ==
    IF \E i \in 1..Len(decomposed) : decomposed[i] = "dasia" THEN <<"h">> ELSE <<>>

\* Lines 154-172: decomposed_text as it stands after the replacement loop,
\* the canonical sound string of the word.
Normalize(w) ==
    LET text == IF w.isstr THEN w.value ELSE <<>>
        decomposed == Strip(Lower(NFKD(text)))
    IN  ApplyReplacements(
            Breathing(decomposed) \o Strip(RemoveOthers(decomposed)), 1)

\* count.get(key, 0)
DictGet(d, key) == IF key \in DOMAIN d THEN d[key] ELSE 0

\* count[key] = n
DictSet(d, key, n) ==
    [x \in (DOMAIN d) \cup {key} |-> IF x = key THEN n ELSE d[x]]

\* The loop of lines 186-190 over the characters of text from position i on.
RECURSIVE CountChars(_, _, _)
CountChars(d, text, i) ==
    IF i > Len(text) THEN d
    ELSE LET key == reverse_get(text[i])
         IN  CountChars(DictSet(d, key, DictGet(d, key) + 1), text, i + 1)

\* Faulty variant of Tally: the first letter is recorded as onset only.
Tally_skipfirst(text) ==
    IF text = <<>> THEN <<>>
    ELSE CountChars(DictSet(<<>>, <<"_">> \o reverse_get(text[1]), 1), text, 2)

\* Lines 174-192: the dictionary built from the canonical sound string.
Tally(text) ==
    IF text = <<>> THEN <<>>
    ELSE CountChars(DictSet(<<>>, <<"_">> \o reverse_get(text[1]), 1), text, 1)

sounds_per_word(w) == Tally(Normalize(w))

-----------------------------------------------------------------------------
(* Inputs of sounds_per_word                                               *)

MaxWordLen == 3
MaxRepeat == 3

\* The letters of the digraphs, the merged letters and one of their targets,
\* precomposed and combining forms of the rough breathing, an accented and
\* a capital letter, and characters outside the alphabet.
WordChars ==
    {"alpha", "epsilon", "iota", "omicron", "upsilon",
     "fsigma", "theta", "chi", "phi", "tau",
     "alpha_dasia", "dasia", "gr_dasia", "alpha_tonos", "ALPHA",
     "h", ",", "1"}

RECURSIVE Repeat(_, _)
Repeat(s, n) == IF n = 0 THEN <<>> ELSE s \o Repeat(s, n - 1)

DigraphRuns ==
    {Repeat(reversible[i].k, n) : i \in 1..Len(reversible), n \in 1..MaxRepeat}

\* A word of the text, or a value that is not a str (the NaN of a line
\* without words).
WordInputs ==
    {[isstr |-> TRUE, value |-> s] :
        s \in UNION {[1..n -> WordChars] : n \in 0..MaxWordLen} \cup DigraphRuns}
    \cup {[isstr |-> FALSE, value |-> <<>>]}

WordInit ==
    /\ word \in WordInputs
    /\ count = <<>>
    /\ wpc = "call"
    /\ IdleId
    /\ IdleMain

\* words["word"].apply(sounds_per_word), line 238, for one word.
SoundsPerWord ==
    /\ wpc = "call"
    /\ count' = sounds_per_word(word)
    /\ wpc' = "returned"
    /\ UNCHANGED <<word, idVars, mainVars>>

WordNext == SoundsPerWord

WordSpec == WordInit /\ [][WordNext]_vars

-----------------------------------------------------------------------------
(* Claims about sounds_per_word                                            *)

Returned == wpc = "returned"

OnsetKeys(d) == {key \in DOMAIN d : key[1] = "_"}

RECURSIVE SumOver(_, _)
SumOver(d, keys) ==
    IF keys = {} THEN 0
    ELSE LET key == CHOOSE x \in keys : TRUE
         IN  d[key] + SumOver(d, keys \ {key})

PureLower(w) ==
    w.isstr /\ \A i \in 1..Len(w.value) : CodePoint(w.value[i]) \in 945..969

\* The canonical string with every surrogate written out as its digraph.
RECURSIVE Expand(_)
Expand(s) == IF s = <<>> THEN <<>> ELSE reverse_get(Head(s)) \o Expand(Tail(s))

MergedLetter(c) ==
    CASE c = "fsigma" -> "sigma"
      [] c = "theta" -> "tau"
      [] c = "chi" -> "kappa"
      [] c = "phi" -> "pi"
      [] OTHER -> c

\* C7, as stated: for a word of lowercase letters of the alphabet only, the
\* canonical sound string is the input unchanged except that digraphs are
\* replaced by their surrogates.
C7_Original ==
    (Returned /\ PureLower(word)) => Expand(Normalize(word)) = word.value

\* C7, amended: for a word of lowercase letters of the alphabet only, the
\* canonical sound string is the input unchanged except that digraphs are
\* replaced by their surrogates and the letters final sigma, theta, chi and
\* phi are replaced by sigma, tau, kappa and pi.
C7_UnchangedUpToDigraphsAndMergers ==
    (Returned /\ PureLower(word)) =>
        Expand(Normalize(word))
            = [i \in 1..Len(word.value) |-> MergedLetter(word.value[i])]

\* C7 witness: a word with a merged letter and a digraph has been normalized.
C7_Witness ==
    /\ Returned
    /\ word = [isstr |-> TRUE, value |-> <<"theta", "omicron", "iota">>]
    /\ Normalize(word) = <<"tau", "O">>

\* The decomposed form of the word holds the rough-breathing mark U+0314.
HasMark(w) ==
    w.isstr /\ \E i \in 1..Len(NFKD(w.value)) : NFKD(w.value)[i] = "dasia"

NotMark(c) == c # "dasia"

\* The decomposed form of the word with the mark taken out.
Unmarked(w) == [isstr |-> TRUE, value |-> SelectSeq(NFKD(w.value), NotMark)]

Digraphs == {reversible[i].k : i \in 1..Len(reversible)}
MergedAway == {one_time[i].k[1] : i \in 1..Len(one_time)}

\* C9: after the replacement loop the canonical sound string holds no
\* digraph as adjacent characters and none of the merged letters; no rule's
\* output is a letter of another rule's pattern and no single-letter rule
\* rewrites a letter of a digraph.
C9_NothingLeftToReplace ==
    Returned =>
        LET canon == Normalize(word)
        IN  /\ \A i \in 1..Len(canon) :
                /\ canon[i] \notin MergedAway
                /\ i < Len(canon) => <<canon[i], canon[i + 1]>> \notin Digraphs
            /\ \A i, j \in 1..Len(replacements) :
                \A n \in 1..Len(replacements[j].k) :
                    replacements[i].v # replacements[j].k[n]
            /\ \A d \in Digraphs : d[1] \notin MergedAway /\ d[2] \notin MergedAway

\* C9 witness: a word in which two digraph patterns overlap has been
\* normalized.
C9_Witness ==
    /\ Returned
    /\ word = [isstr |-> TRUE, value |-> <<"alpha", "upsilon", "iota">>]
    /\ Normalize(word) = <<"alpha", "Y">>

-----------------------------------------------------------------------------
(* The main script, lines 199-245                                          *)

MaxSpeeches == 2

Str(w) == [isstr |-> TRUE, value |-> w]

\* The line table retrieve_text returns (line 202): for every line its book
\* and line attributes, the key create_id gives them (line 131) and its
\* text, here already split into words.  The label column does not exist
\* before line 214.
TextLines ==
    << [book |-> <<"1">>, line |-> <<"1">>,
        text |-> <<Str(<<"omicron", "iota", "dasia">>)>>],
       [book |-> <<"1">>, line |-> <<"2">>,
        text |-> <<Str(<<"theta", "alpha_tonos">>), Str(<<"tau", "ALPHA">>)>>],
       [book |-> <<"1">>, line |-> <<"2", "a">>, text |-> <<>>],
       [book |-> <<"1">>, line |-> <<"3">>,
        text |-> <<Str(<<"alpha", "upsilon", "iota">>)>>],
       [book |-> <<"1">>, line |-> <<"3", "b">>, text |-> <<Str(<<",">>)>>],
       [book |-> <<"2">>, line |-> <<"1">>, text |-> <<Str(<<"alpha_dasia">>)>>],
       [book |-> <<"2">>, line |-> <<"2">>, text |-> <<Str(<<"chi", "iota">>)>>] >>

RetrievedLines ==
    [i \in 1..Len(TextLines) |->
        [id |-> create_id(TextLines[i].book, TextLines[i].line).id,
         book |-> TextLines[i].book,
         line |-> TextLines[i].line,
         text |-> TextLines[i].text,
         label |-> "unset"]]

\* The l_fi and l_la values DICES may hand over: "book.line" strings, one
\* of them with a line suffix and one whose line is no number.
Endpoints ==
    { <<"1", ".", "1">>, <<"1", ".", "2">>, <<"1", ".", "3">>,
      <<"2", ".", "1">>, <<"1", ".", "2", "a">>, <<"1", ".", "X">> }

SpeechRecords == [l_fi : Endpoints, l_la : Endpoints]

\* s.split("."): the pieces of s between the dots.
RECURSIVE Split(_)
Split(s) ==
    IF \A i \in 1..Len(s) : s[i] # "."
    THEN <<s>>
    ELSE LET d == CHOOSE i \in 1..Len(s) :
                      s[i] = "." /\ \A j \in 1..(i - 1) : s[j] # "."
         IN  <<SubSeq(s, 1, d - 1)>> \o Split(SubSeq(s, d + 1, Len(s)))

\* book, line = e.split(".") followed by create_id(book, line), lines
\* 218-222: raised when the unpacking or create_id raises ValueError.
EndpointId(e) ==
    LET parts == Split(e)
    IN  IF Len(parts) = 2 THEN create_id(parts[1], parts[2])
        ELSE [raised |-> TRUE, id |-> <<>>]

\* Faulty variant of Between: both ends are excluded.
Between_exclusive(key, left, right) == StrLT(left, key) /\ StrLT(key, right)

\* Series.between(left, right), both ends included.
Between(key, left, right) == StrLE(left, key) /\ StrLE(key, right)

MainInit ==
    /\ lines = RetrievedLines
    /\ speeches \in UNION {[1..n -> SpeechRecords] : n \in 0..MaxSpeeches}
    /\ cur = 0
    /\ pc = "start"
    /\ sounds = <<>>
    /\ written = FALSE
    /\ IdleId
    /\ IdleWord

\* lines["label"] = "narration", line 214; the loop of line 217 starts.
DefaultLabel ==
    /\ pc = "start"
    /\ lines' = [i \in 1..Len(lines) |-> [lines[i] EXCEPT !.label = "narration"]]
    /\ cur' = 1
    /\ pc' = "label"
    /\ UNCHANGED <<speeches, sounds, written, idVars, wordVars>>

\* Faulty variant of LabelSpeech: a speech whose endpoints do not parse is
\* skipped and the loop goes on.
LabelSpeech_skipbad ==
    /\ pc = "label"
    /\ cur <= Len(speeches)
    /\ LET first == EndpointId(speeches[cur].l_fi)
           last == EndpointId(speeches[cur].l_la)
       IN  IF first.raised \/ last.raised
           THEN /\ cur' = cur + 1
                /\ UNCHANGED <<lines, pc>>
           ELSE /\ lines' = [i \in 1..Len(lines) |->
                               IF Between(lines[i].id, first.id, last.id)
                               THEN [lines[i] EXCEPT !.label = "speech"]
                               ELSE lines[i]]
                /\ cur' = cur + 1
                /\ UNCHANGED pc
    /\ UNCHANGED <<speeches, sounds, written, idVars, wordVars>>

\* One pass of the loop body, lines 217-224, for the speech at cur.  A
\* ValueError of create_id is not caught: the script ends there.
LabelSpeech ==
    /\ pc = "label"
    /\ cur <= Len(speeches)
    /\ LET first == EndpointId(speeches[cur].l_fi)
           last == EndpointId(speeches[cur].l_la)
       IN  IF first.raised \/ last.raised
           THEN /\ pc' = "aborted"
                /\ UNCHANGED <<lines, cur>>
           ELSE /\ lines' = [i \in 1..Len(lines) |->
                               IF Between(lines[i].id, first.id, last.id)
                               THEN [lines[i] EXCEPT !.label = "speech"]
                               ELSE lines[i]]
                /\ cur' = cur + 1
                /\ UNCHANGED pc
    /\ UNCHANGED <<speeches, sounds, written, idVars, wordVars>>

\* The rows of the words table, lines 227-234: one row per word of a line,
\* and one row whose word is no str for a line without words.
RECURSIVE Explode(_, _)
Explode(ls, i) ==
    IF i > Len(ls) THEN <<>>
    ELSE (IF ls[i].text = <<>>
          THEN <<[id |-> ls[i].id, label |-> ls[i].label,
                  word |-> [isstr |-> FALSE, value |-> <<>>]]>>
          ELSE [n \in 1..Len(ls[i].text) |->
                  [id |-> ls[i].id, label |-> ls[i].label, word |-> ls[i].text[n]]])
         \o Explode(ls, i + 1)

\* Lines 227-238, once the loop is over: every word is tallied.
TallyWords ==
    /\ pc = "label"
    /\ cur > Len(speeches)
    /\ sounds' = [n \in 1..Len(Explode(lines, 1)) |->
                    sounds_per_word(Explode(lines, 1)[n].word)]
    /\ pc' = "write"
    /\ UNCHANGED <<lines, speeches, cur, written, idVars, wordVars>>

\* Lines 240-245: the table is written to SOUNDS_FILE.
WriteFile ==
    /\ pc = "write"
    /\ written' = TRUE
    /\ pc' = "done"
    /\ UNCHANGED <<lines, speeches, cur, sounds, idVars, wordVars>>

MainNext == DefaultLabel \/ LabelSpeech \/ TallyWords \/ WriteFile

MainSpec == MainInit /\ [][MainNext]_vars

-----------------------------------------------------------------------------
(* Claims about the labelling of speeches                                  *)

\* What lines 218-222 make of each endpoint DICES may hand over.
EndpointKeys == [e \in Endpoints |-> EndpointId(e)]

\* Both endpoints of the speech convert to keys.
Parses(s) == ~EndpointKeys[s.l_fi].raised /\ ~EndpointKeys[s.l_la].raised

\* id_first <= key <= id_last under string comparison.
Covers(s, key) ==
    /\ Parses(s)
    /\ StrLE(EndpointKeys[s.l_fi].id, key)
    /\ StrLE(key, EndpointKeys[s.l_la].id)

\* The loop of line 217 has gone through every speech.
AllApplied ==
    \/ pc \in {"write", "done"}
    \/ pc = "label" /\ cur = Len(speeches) + 1

\* C3: after all speech ranges have been applied, a line's label is "speech"
\* if and only if some range has id_first <= key <= id_last under string
\* comparison, and "narration" otherwise; a range with id_first > id_last
\* labels no record and raises no error.
C3_LabelIffCovered ==
    /\ AllApplied =>
         \A i \in 1..Len(lines) :
            lines[i].label =
                IF \E n \in 1..Len(speeches) : Covers(speeches[n], lines[i].id)
                THEN "speech" ELSE "narration"
    /\ (\A n \in 1..Len(speeches) : Parses(speeches[n])) => pc # "aborted"

\* C3 witness: the script has finished with a range whose first key is
\* greater than its last and a range that covers lines 1.2 to 1.3.
C3_Witness ==
    /\ pc = "done"
    /\ speeches = << [l_fi |-> <<"1", ".", "3">>, l_la |-> <<"1", ".", "1">>],
                     [l_fi |-> <<"1", ".", "2">>, l_la |-> <<"1", ".", "3">>] >>
    /\ [i \in 1..Len(lines) |-> lines[i].label]
         = <<"narration", "speech", "speech", "speech",
             "narration", "narration", "narration">>

BadSpeeches == {n \in 1..Len(speeches) : ~Parses(speeches[n])}

FirstBad == CHOOSE n \in BadSpeeches : \A m \in BadSpeeches : n <= m

\* C6: if an endpoint of some range does not parse as a locus, the run
\* aborts at the first such range: no later range is applied, no word is
\* tallied and the sounds file is never written.
C6_FailFast ==
    BadSpeeches # {} =>
        /\ pc \in {"start", "label", "aborted"}
        /\ cur <= FirstBad
        /\ pc = "aborted" => cur = FirstBad
        /\ sounds = <<>>
        /\ ~written
        /\ \A i \in 1..Len(lines) :
              lines[i].label = "speech" =>
                  \E n \in 1..(FirstBad - 1) : Covers(speeches[n], lines[i].id)

\* C6 witness: the run has aborted at the first of two ranges, the second
\* of which would have labelled lines.
C6_Witness ==
    /\ pc = "aborted"
    /\ cur = 1
    /\ Len(speeches) = 2
    /\ \E i \in 1..Len(lines) : Covers(speeches[2], lines[i].id)

\* The endpoints that are "book.line" with no suffix.
BareEndpoints ==
    {e \in Endpoints :
        Len(Split(e)) = 2 /\ IsInt(Split(e)[1]) /\ IsInt(Split(e)[2])}

Bare(e) == e \in BareEndpoints

\* Book and line number of each such endpoint.
EndLoci ==
    [e \in BareEndpoints |->
        [book |-> int(Split(e)[1]), line |-> int(Split(e)[2])]]

EndLocus(e) == EndLoci[e]

\* The line record carries a letter suffix.
Suffixed(rec) == LineMatch(rec.line).matched

RecLocus(rec) ==
    [book |-> int(rec.book), line |-> int(LineMatch(rec.line).numeric)]

\* A suffixed record at the last endpoint of range n is outside that range
\* and is labelled "speech" only if another range covers it.
OutsideAtLast(n, rec) ==
    /\ ~Covers(speeches[n], rec.id)
    /\ \/ rec.label = "narration"
       \/ \E m \in 1..Len(speeches) : m # n /\ Covers(speeches[m], rec.id)

\* (book, line) of a strictly before (book, line) of b.
LineBefore(a, b) == a.book < b.book \/ (a.book = b.book /\ a.line < b.line)

\* C10, as stated: for a range with endpoints without suffix, a suffixed
\* record at the book and line of the first endpoint is labelled "speech",
\* and a suffixed record at the book and line of the last endpoint is
\* outside the range and keeps "narration" unless another range covers it.
\* The first half is read for the ranges whose first endpoint is not after
\* their last one; it fails even for those.
C10_Original ==
    AllApplied =>
        \A n \in 1..Len(speeches) : \A i \in 1..Len(lines) :
            (Bare(speeches[n].l_fi) /\ Bare(speeches[n].l_la)
                /\ Suffixed(lines[i])) =>
                /\ (RecLocus(lines[i]) = EndLocus(speeches[n].l_fi)
                      /\ ~LineBefore(EndLocus(speeches[n].l_la),
                                     EndLocus(speeches[n].l_fi)))
                     => lines[i].label = "speech"
                /\ RecLocus(lines[i]) = EndLocus(speeches[n].l_la)
                     => OutsideAtLast(n, lines[i])

\* C10, amended: as stated, the first half only for a range whose first
\* endpoint is at an earlier (book, line) than its last endpoint.
C10_SuffixedAtBoundaries ==
    AllApplied =>
        \A n \in 1..Len(speeches) : \A i \in 1..Len(lines) :
            (Bare(speeches[n].l_fi) /\ Bare(speeches[n].l_la)
                /\ Suffixed(lines[i])) =>
                /\ (RecLocus(lines[i]) = EndLocus(speeches[n].l_fi)
                      /\ LineBefore(EndLocus(speeches[n].l_fi),
                                    EndLocus(speeches[n].l_la)))
                     => lines[i].label = "speech"
                /\ RecLocus(lines[i]) = EndLocus(speeches[n].l_la)
                     => OutsideAtLast(n, lines[i])

\* C10 witness: the range 1.2 to 1.3 has been applied alone; line 1.2a is
\* labelled "speech" and line 1.3b "narration".
C10_Witness ==
    /\ AllApplied
    /\ speeches = << [l_fi |-> <<"1", ".", "2">>, l_la |-> <<"1", ".", "3">>] >>
    /\ lines[3].line = <<"2", "a">>
    /\ lines[3].label = "speech"
    /\ lines[5].line = <<"3", "b">>
    /\ lines[5].label = "narration"

=============================================================================
